---------------------------- MODULE Spec2Model ----------------------------
(***************************************************************************)
(* HCB script tools of fvp_tools.py: the disassembler hcb_decode (two      *)
(* passes over the code segment) and the reassembler hcb_rebuild (string   *)
(* operands rewritten in place from a replacement table).                  *)
(*                                                                         *)
(* Conventions.  A file is a sequence of bytes 0..255; Python offset i is  *)
(* element i+1 of the sequence.  A text is a sequence of characters, each  *)
(* character a token: "A", "|", "\\" (one backslash), the named control     *)
(* characters "LF", "CR", "NUL", ..., "HIRA_A" (U+3042, two bytes in       *)
(* cp932), "U263A" (a character cp932 cannot encode) and "UFFFD" (the      *)
(* replacement character of a lenient decode).                             *)
(***************************************************************************)
EXTENDS Integers, Sequences, FiniteSets, TLC

VARIABLES
    data,          \* bytes of the input .hcb file
    table,         \* lines of the strings file, as file iteration yields them
    pc,            \* position in the running operation
    pos,           \* cursor of the current loop
    replacements,  \* hcb_rebuild: addr -> text
    new_code,      \* hcb_rebuild: the rebuilt code section
    emitted,       \* hcb_rebuild: history of the string operands appended
    written,       \* hcb_rebuild: <<>> or <<bytes of the output file>>
    functions,     \* hcb_decode: addr -> func_number
    labels,        \* hcb_decode: addr -> label name
    func_num,      \* hcb_decode: next function number
    lines,         \* hcb_decode: the listing
    strings_list,  \* hcb_decode: (string_id, inst_addr, string)
    string_id,     \* hcb_decode: next string id
    current_func,  \* hcb_decode: function being listed, -1 before the first
    listing,       \* hcb_decode: <<>> or <<lines of the output file>>
    strings_file,  \* hcb_decode: <<>> or <<records of the strings file>>
    text,          \* string codec: a decoded string
    escaped,       \* string codec: its table-escaped form
    unescaped,     \* string codec: the form read back from the table
    lookup_opcode, \* opcode table: the argument of get_opcode_info
    lookup_name,   \* opcode table: the argument of get_opcode_by_name
    info,          \* opcode table: <<>> or <<result of get_opcode_info>>
    matches,       \* opcode table: <<>> or <<result of get_opcode_by_name>>
    first_run,     \* hcb_decode: <<>> or <<outputs of an earlier call>>
    iterations,    \* history: iterations of the current loop over the code
    extracted      \* hcb_extract_strings: <<>> or <<records of the output file>>

vars == <<data, table, pc, pos, replacements, new_code, emitted, written,
          functions, labels, func_num, lines, strings_list, string_id,
          current_func, listing, strings_file, text, escaped, unescaped,
          lookup_opcode, lookup_name, info, matches, first_run, iterations, extracted>>

rebuildVars == <<replacements, new_code, emitted, written>>
decodeVars == <<functions, labels, func_num, lines, strings_list, string_id,
                current_func, listing, strings_file>>
codecVars == <<text, escaped, unescaped>>
lookupVars == <<lookup_opcode, lookup_name, info, matches>>

---------------------------------------------------------------------------
(* Bounds of the model *)

MaxRebuildChunks == 2  \* instructions in a code body given to hcb_rebuild
MaxDecodeChunks == 3   \* instructions in a code body given to hcb_decode
MaxLines == 2          \* lines in a generated strings file
MaxTextLen == 3        \* characters in a text of the escaping round trip
MaxTableLines == 3     \* lines in a strings file read line by line

---------------------------------------------------------------------------
(* Opcode table *)

OPARG_NULL == 0
OPARG_X32 == 1
OPARG_I32 == 2
OPARG_I16 == 3
OPARG_I8 == 4
OPARG_I8I8 == 5
OPARG_STRING == 6

HCB_OPCODES ==
    << <<0, "nop", OPARG_NULL>>,
       <<1, "initstack", OPARG_I8I8>>,
       <<2, "call", OPARG_X32>>,
       <<3, "syscall", OPARG_I16>>,
       <<4, "ret", OPARG_NULL>>,
       <<5, "ret2", OPARG_NULL>>,
       <<6, "jmp", OPARG_X32>>,
       <<7, "jmpcond", OPARG_X32>>,
       <<8, "pushtrue", OPARG_NULL>>,
       <<9, "pushfalse", OPARG_NULL>>,
       <<10, "pushint", OPARG_I32>>,
       <<11, "pushint", OPARG_I16>>,
       <<12, "pushint", OPARG_I8>>,
       <<13, "pushfloat", OPARG_X32>>,
       <<14, "pushstring", OPARG_STRING>>,
       <<15, "pushglobal", OPARG_I16>>,
       <<16, "pushstack", OPARG_I8>>,
       <<17, "unk_11", OPARG_I16>>,
       <<18, "unk_12", OPARG_I8>>,
       <<19, "pushtop", OPARG_NULL>>,
       <<20, "pushtemp", OPARG_NULL>>,
       <<21, "popglobal", OPARG_I16>>,
       <<22, "copystack", OPARG_I8>>,
       <<23, "unk_17", OPARG_I16>>,
       <<24, "unk_18", OPARG_I8>>,
       <<25, "neg", OPARG_NULL>>,
       <<26, "add", OPARG_NULL>>,
       <<27, "sub", OPARG_NULL>>,
       <<28, "mul", OPARG_NULL>>,
       <<29, "div", OPARG_NULL>>,
       <<30, "mod", OPARG_NULL>>,
       <<31, "test", OPARG_NULL>>,
       <<32, "logand", OPARG_NULL>>,
       <<33, "logor", OPARG_NULL>>,
       <<34, "eq", OPARG_NULL>>,
       <<35, "neq", OPARG_NULL>>,
       <<36, "gt", OPARG_NULL>>,
       <<37, "le", OPARG_NULL>>,
       <<38, "lt", OPARG_NULL>>,
       <<39, "ge", OPARG_NULL>> >>

HCB_LAST_OPCODE == 39

\* (None, None) of the source is <<"", -1>>: no mnemonic is empty and no
\* argument type is negative.
get_opcode_info(opcode) ==
    IF opcode > HCB_LAST_OPCODE
    THEN <<"", -1>>
    ELSE <<HCB_OPCODES[opcode + 1][2], HCB_OPCODES[opcode + 1][3]>>

\* A mutant of get_opcode_by_name: the first entry of the name only
get_opcode_by_name_First(nm) ==
    LET Match(e) == e[2] = nm
        hit == SelectSeq(HCB_OPCODES, Match)
    IN  IF hit = <<>> THEN <<>> ELSE << <<hit[1][1], hit[1][3]>> >>

\* The list of (opcode, arg_type) of the entries named nm, in table order
get_opcode_by_name(nm) ==
    LET Match(e) == e[2] = nm
        hit == SelectSeq(HCB_OPCODES, Match)
    IN  [i \in 1..Len(hit) |-> <<hit[i][1], hit[i][3]>>]

---------------------------------------------------------------------------
(* Python sequence and struct primitives *)

Min(a, b) == IF a < b THEN a ELSE b
Max(a, b) == IF a > b THEN a ELSE b

\* s[a:b] for a >= 0: a negative b counts from the end, and both ends are
\* clamped to the sequence.
PySlice(s, a, b) ==
    LET e == IF b < 0 THEN Max(Len(s) + b, 0) ELSE Min(b, Len(s))
    IN  IF a >= e THEN <<>> ELSE SubSeq(s, a + 1, e)

\* struct.unpack_from('<I', d, off)[0]; the caller has checked off + 4 <= len(d)
UnpackU32(d, off) ==
    d[off + 1] + 256 * d[off + 2] + 65536 * d[off + 3] + 16777216 * d[off + 4]

\* struct.pack('<I', v)
PackU32(v) ==
    << v % 256, (v \div 256) % 256, (v \div 65536) % 256, (v \div 16777216) % 256 >>

\* struct.unpack('<b' | '<h' | '<i'): two's complement of `width` bytes.
\* Numbers of the model stay below 2^31, so a generated 4-byte field has a
\* top byte below 128.
ToSigned(v, width) ==
    IF width = 1 THEN (IF v >= 128 THEN v - 256 ELSE v)
    ELSE IF width = 2 THEN (IF v >= 32768 THEN v - 65536 ELSE v)
    ELSE (IF v > 2147483647 THEN (v - 2147483647) - 2147483647 - 2 ELSE v)

UnpackLE(d, off, width) ==
    IF width = 1 THEN d[off + 1]
    ELSE IF width = 2 THEN d[off + 1] + 256 * d[off + 2]
    ELSE UnpackU32(d, off)

RECURSIVE Flatten(_)
Flatten(ss) == IF ss = <<>> THEN <<>> ELSE Head(ss) \o Flatten(Tail(ss))

RECURSIVE Repeat(_, _)
Repeat(x, n) == IF n <= 0 THEN <<>> ELSE <<x>> \o Repeat(x, n - 1)

EndsWith(s, x) == Len(s) > 0 /\ s[Len(s)] = x

StartsWith(s, p) == Len(s) >= Len(p) /\ SubSeq(s, 1, Len(p)) = p

\* str.replace(old, new): non-overlapping occurrences, leftmost first
RECURSIVE Replace(_, _, _)
Replace(s, old, new) ==
    IF s = <<>> THEN <<>>
    ELSE IF StartsWith(s, old)
         THEN new \o Replace(SubSeq(s, Len(old) + 1, Len(s)), old, new)
         ELSE <<Head(s)>> \o Replace(Tail(s), old, new)

\* str.rstrip(chars)
RECURSIVE RStrip(_, _)
RStrip(s, chars) ==
    IF s # <<>> /\ s[Len(s)] \in chars
    THEN RStrip(SubSeq(s, 1, Len(s) - 1), chars)
    ELSE s

---------------------------------------------------------------------------
(* String codec: cp932 on the characters of the model *)

BS == "\\"

\* The characters of the bytes 0..127, which cp932 shares with ASCII:
\* Ascii[b + 1] is the character of byte b.  Control characters have names.
Ascii ==
    << "NUL", "SOH", "STX", "ETX", "EOT", "ENQ", "ACK", "BEL",
       "BS_", "TAB", "LF", "VT", "FF", "CR", "SO", "SI",
       "DLE", "DC1", "DC2", "DC3", "DC4", "NAK", "SYN", "ETB",
       "CAN", "EM", "SUB", "ESC", "FS", "GS", "RS", "US",
       " ", "!", "\"", "#", "$", "%", "&", "'",
       "(", ")", "*", "+", ",", "-", ".", "/",
       "0", "1", "2", "3", "4", "5", "6", "7",
       "8", "9", ":", ";", "<", "=", ">", "?",
       "@", "A", "B", "C", "D", "E", "F", "G",
       "H", "I", "J", "K", "L", "M", "N", "O",
       "P", "Q", "R", "S", "T", "U", "V", "W",
       "X", "Y", "Z", "[", "\\", "]", "^", "_",
       "GRAVE", "a", "b", "c", "d", "e", "f", "g",
       "h", "i", "j", "k", "l", "m", "n", "o",
       "p", "q", "r", "s", "t", "u", "v", "w",
       "x", "y", "z", "{", "|", "}", "~", "DEL" >>

\* The bytes of one character in cp932; <<>> for a character outside cp932.
Cp932Char(ch) ==
    IF \E b \in 0..127 : Ascii[b + 1] = ch
    THEN <<CHOOSE b \in 0..127 : Ascii[b + 1] = ch>>
    ELSE IF ch = "HIRA_A" THEN <<130, 160>>
    ELSE <<>>

\* str.encode('cp932', errors='strict'): ok is FALSE for UnicodeEncodeError
EncodeStrict(t) ==
    IF \E i \in 1..Len(t) : Cp932Char(t[i]) = <<>>
    THEN [ok |-> FALSE, bytes |-> <<>>]
    ELSE [ok |-> TRUE, bytes |-> Flatten([i \in 1..Len(t) |-> Cp932Char(t[i])])]

\* Table escaping of a decoded string (strings file writer)
EscapeForTable(t) ==
    Replace(Replace(Replace(t, <<BS>>, <<BS, BS>>), <<"LF">>, <<BS, "n">>),
            <<"CR">>, <<BS, "r">>)

\* Unescaping of a table text (strings file reader)
UnescapeFromTable(t) ==
    Replace(Replace(Replace(t, <<BS, "n">>, <<"LF">>), <<BS, "r">>, <<"CR">>),
            <<BS, BS>>, <<BS>>)

---------------------------------------------------------------------------
(* hcb_rebuild: the replacement table *)

Digits == <<"0", "1", "2", "3", "4", "5", "6", "7", "8", "9",
            "A", "B", "C", "D", "E", "F">>
DecDigits == { Digits[i] : i \in 1..10 }
HexDigits == { Digits[i] : i \in 1..16 } \cup {"a", "b", "c", "d", "e", "f"}

DigitVal(ch) ==
    CASE ch = "a" -> 10 [] ch = "b" -> 11 [] ch = "c" -> 12
      [] ch = "d" -> 13 [] ch = "e" -> 14 [] ch = "f" -> 15
      [] OTHER -> (CHOOSE i \in 1..16 : Digits[i] = ch) - 1

RECURSIVE DigitsVal(_, _, _)
DigitsVal(s, base, acc) ==
    IF s = <<>> THEN acc
    ELSE DigitsVal(Tail(s), base, acc * base + DigitVal(Head(s)))

\* int(s) and int(s, 16) on fields over the characters of the model (no
\* sign, blank or underscore occurs in them): ok is FALSE for ValueError.
ParseInt(s, base) ==
    LET body == IF base = 16 /\ StartsWith(s, <<"0", "x">>)
                THEN SubSeq(s, 3, Len(s)) ELSE s
        digits == IF base = 16 THEN HexDigits ELSE DecDigits
    IN  IF body # <<>> /\ \A i \in 1..Len(body) : body[i] \in digits
        THEN [ok |-> TRUE, val |-> DigitsVal(body, base, 0)]
        ELSE [ok |-> FALSE, val |-> 0]

\* Offset (1-based) of the first "|" of s at or after `from`, 0 when none
FindPipe(s, from) ==
    IF \E i \in from..Len(s) : s[i] = "|"
    THEN CHOOSE i \in from..Len(s) :
            s[i] = "|" /\ \A j \in from..(i - 1) : s[j] # "|"
    ELSE 0

\* line.split('|', 2)
SplitPipe2(s) ==
    LET p1 == FindPipe(s, 1)
        p2 == IF p1 = 0 THEN 0 ELSE FindPipe(s, p1 + 1)
    IN  IF p1 = 0 THEN <<s>>
        ELSE IF p2 = 0 THEN <<SubSeq(s, 1, p1 - 1), SubSeq(s, p1 + 1, Len(s))>>
        ELSE <<SubSeq(s, 1, p1 - 1), SubSeq(s, p1 + 1, p2 - 1),
               SubSeq(s, p2 + 1, Len(s))>>

\* One line of the strings file: the entry it adds to the map, if any
ParseLine(rawline) ==
    LET line == RStrip(rawline, {"LF", "CR"})
        parts == SplitPipe2(line)
        skip == [ok |-> FALSE, addr |-> 0, text |-> <<>>]
    IN  IF line = <<>> \/ StartsWith(line, <<"#">>) THEN skip
        ELSE IF Len(parts) < 3 THEN skip
        ELSE LET sid == ParseInt(parts[1], 10)
                 addr == IF StartsWith(parts[2], <<"0", "x">>)
                         THEN ParseInt(parts[2], 16)
                         ELSE ParseInt(parts[2], 10)
             IN  IF ~sid.ok \/ ~addr.ok THEN skip
                 ELSE [ok |-> TRUE, addr |-> addr.val,
                       text |-> UnescapeFromTable(parts[3])]

\* A mutant of MapPut: an address already in the map keeps its text
MapPut_FirstWins(m, k, v) ==
    [a \in (DOMAIN m) \cup {k} |-> IF a \in DOMAIN m THEN m[a] ELSE v]

\* replacements[addr] = text
MapPut(m, k, v) == [a \in (DOMAIN m) \cup {k} |-> IF a = k THEN v ELSE m[a]]

\* The loop over the lines of the strings file
RECURSIVE ParseTable(_, _)
ParseTable(ls, acc) ==
    IF ls = <<>> THEN acc
    ELSE LET e == ParseLine(Head(ls))
         IN  ParseTable(Tail(ls), IF e.ok THEN MapPut(acc, e.addr, e.text) ELSE acc)

---------------------------------------------------------------------------
(* hcb_rebuild: the walk over the code section *)

entry_point == UnpackU32(data, 0)
code_end == entry_point

\* A mutant of FitString: the fill bytes are put after the terminator
FitString_PadAfterNul(new_str0, old_str_len) ==
    LET new_str == IF EndsWith(new_str0, 0) THEN new_str0 ELSE new_str0 \o <<0>>
    IN  IF Len(new_str) < old_str_len
        THEN new_str \o Repeat(32, old_str_len - Len(new_str))
        ELSE IF Len(new_str) > old_str_len
        THEN PySlice(new_str, 0, old_str_len - 1) \o <<0>>
        ELSE new_str

\* Null terminator, then pad or truncate to the original length
FitString(new_str0, old_str_len) ==
    LET new_str == IF EndsWith(new_str0, 0) THEN new_str0 ELSE new_str0 \o <<0>>
    IN  IF Len(new_str) < old_str_len
        THEN PySlice(new_str, 0, -1) \o Repeat(32, old_str_len - Len(new_str)) \o <<0>>
        ELSE IF Len(new_str) > old_str_len
        THEN PySlice(new_str, 0, old_str_len - 1) \o <<0>>
        ELSE new_str

\* The operand bytes emitted for the string instruction at old_addr
NewString(repl, old_addr, old_str, old_str_len) ==
    IF old_addr \in DOMAIN repl
    THEN LET enc == EncodeStrict(repl[old_addr])
         IN  FitString(IF enc.ok THEN enc.bytes ELSE old_str, old_str_len)
    ELSE old_str

\* Bytes of a fixed-width argument
ArgWidth(arg_type) ==
    CASE arg_type = OPARG_NULL -> 0
      [] arg_type = OPARG_X32 -> 4
      [] arg_type = OPARG_I32 -> 4
      [] arg_type = OPARG_I16 -> 2
      [] arg_type = OPARG_I8 -> 1
      [] arg_type = OPARG_I8I8 -> 2

\* A mutant of NoReplacements: the copy branch is never taken
NoReplacements_Never(repl) == FALSE

\* `if not replacements`
NoReplacements(repl) == DOMAIN repl = {}

\* Reading the files, parsing the table, and the copy made when the map is
\* empty; otherwise the header is unpacked and the walk starts at 4.
RebuildStart ==
    /\ pc = "rebuild"
    /\ LET repl == ParseTable(table, <<>>)
       IN  /\ replacements' = repl
           /\ IF NoReplacements(repl)
              THEN /\ written' = <<data>>
                   /\ pc' = "rebuilt"
                   /\ pos' = pos
              ELSE IF Len(data) < 4
              THEN /\ pc' = "error"          \* struct.error
                   /\ UNCHANGED <<written, pos>>
              ELSE /\ pc' = "walk"
                   /\ pos' = 4
                   /\ written' = written
    /\ UNCHANGED <<data, table, new_code, emitted, decodeVars, codecVars, lookupVars, first_run, extracted>>
    /\ iterations' = 0

\* data[pos] raises IndexError past the end of the file
RebuildIndexError ==
    /\ pc = "walk"
    /\ pos < code_end
    /\ IF pos >= Len(data)
       THEN TRUE                               \* opcode = data[pos]
       ELSE /\ data[pos + 1] <= HCB_LAST_OPCODE \* data[pos] after pos += 1
            /\ get_opcode_info(data[pos + 1])[2] \in {OPARG_I8, OPARG_STRING}
            /\ pos + 1 >= Len(data)
    /\ pc' = "error"
    /\ UNCHANGED <<data, table, pos, rebuildVars, decodeVars, codecVars, lookupVars, first_run, extracted>>
    /\ iterations' = iterations + 1

\* A mutant of RebuildUnknown: the unknown byte is skipped, not copied
RebuildUnknown_NotCopied ==
    /\ pc = "walk"
    /\ pos < code_end
    /\ pos < Len(data)
    /\ data[pos + 1] > HCB_LAST_OPCODE
    /\ pos' = pos + 1
    /\ UNCHANGED <<data, table, pc, replacements, new_code, emitted, written,
                   decodeVars, codecVars, lookupVars, first_run, extracted>>
    /\ iterations' = iterations + 1

RebuildUnknown ==
    /\ pc = "walk"
    /\ pos < code_end
    /\ pos < Len(data)
    /\ data[pos + 1] > HCB_LAST_OPCODE
    /\ new_code' = Append(new_code, data[pos + 1])
    /\ pos' = pos + 1
    /\ UNCHANGED <<data, table, pc, replacements, emitted, written,
                   decodeVars, codecVars, lookupVars, first_run, extracted>>
    /\ iterations' = iterations + 1

RebuildFixed ==
    /\ pc = "walk"
    /\ pos < code_end
    /\ pos < Len(data)
    /\ data[pos + 1] <= HCB_LAST_OPCODE
    /\ LET arg_type == get_opcode_info(data[pos + 1])[2]
       IN  /\ arg_type # OPARG_STRING
           /\ arg_type = OPARG_I8 => pos + 1 < Len(data)
           /\ new_code' = Append(new_code, data[pos + 1])
                            \o PySlice(data, pos + 1, pos + 1 + ArgWidth(arg_type))
           /\ pos' = pos + 1 + ArgWidth(arg_type)
    /\ UNCHANGED <<data, table, pc, replacements, emitted, written,
                   decodeVars, codecVars, lookupVars, first_run, extracted>>
    /\ iterations' = iterations + 1

RebuildString ==
    /\ pc = "walk"
    /\ pos < code_end
    /\ pos + 1 < Len(data)
    /\ data[pos + 1] <= HCB_LAST_OPCODE
    /\ get_opcode_info(data[pos + 1])[2] = OPARG_STRING
    /\ LET old_addr == pos
           old_str_len == data[pos + 2]
           old_str == PySlice(data, pos + 2, pos + 2 + old_str_len)
           new_str == NewString(replacements, old_addr, old_str, old_str_len)
       IN  /\ pos' = pos + 2 + old_str_len
           /\ IF Len(new_str) > 255
              THEN /\ pc' = "error"          \* bytearray.append: ValueError
                   /\ UNCHANGED <<new_code, emitted>>
              ELSE /\ pc' = pc
                   /\ new_code' = new_code \o <<data[pos + 1], Len(new_str)>> \o new_str
                   /\ emitted' = Append(emitted,
                         [addr |-> old_addr, old_len |-> old_str_len,
                          old_str |-> old_str, len_byte |-> Len(new_str),
                          new_str |-> new_str])
    /\ UNCHANGED <<data, table, replacements, written, decodeVars, codecVars, lookupVars, first_run, extracted>>
    /\ iterations' = iterations + 1

\* Header, new code section, data section; then the output file is written
RebuildFinish ==
    /\ pc = "walk"
    /\ pos >= code_end
    /\ written' = <<PackU32(entry_point) \o new_code
                     \o PySlice(data, entry_point, Len(data))>>
    /\ pc' = "rebuilt"
    /\ UNCHANGED <<data, table, pos, replacements, new_code, emitted,
                   decodeVars, codecVars, lookupVars, first_run, iterations, extracted>>

NextRebuild ==
    \/ RebuildStart
    \/ RebuildIndexError
    \/ RebuildUnknown
    \/ RebuildFixed
    \/ RebuildString
    \/ RebuildFinish

---------------------------------------------------------------------------
(* Inputs of hcb_rebuild *)

\* Instructions and stray bytes the generated code bodies are made of
RebuildChunks ==
    { <<0>>,                    \* nop
      <<40>>,                   \* a byte above HCB_LAST_OPCODE
      <<12, 5>>,                \* pushint (I8)
      <<1, 2, 3>>,              \* initstack 2, 3
      <<14, 0>>,                \* pushstring, length 0
      <<14, 1, 65>>,            \* pushstring "A", no terminator
      <<14, 2, 65, 0>>,         \* pushstring "A\0"
      <<14, 3, 65, 66, 0>> }    \* pushstring "AB\0"

ChunkSeqs(chunks, n) == UNION { [1..k -> chunks] : k \in 0..n }

\* entryPoint values tried for a body: inside the header, an empty code
\* segment, one byte short of the file's end, the file's end, past it
EntryPoints(body) ==
    {0, 4, 4 + Len(body), 5 + Len(body)} \cup
    (IF Len(body) > 0 THEN {3 + Len(body)} ELSE {})

FilesOf(chunks, n) ==
    { PackU32(ep) \o Flatten(cs) :
        <<cs, ep>> \in { <<c, e>> \in ChunkSeqs(chunks, n) \X (0..32) :
                            e \in EntryPoints(Flatten(c)) } }

\* Files shorter than the header
SmallFiles == { <<>>, <<5, 0, 0>> }

RebuildFiles == FilesOf(RebuildChunks, MaxRebuildChunks) \cup SmallFiles

RebuildLines ==
    { <<"#", "LF">>,
      <<"0", "|", "0", "x", "4", "|", "A", "LF">>,
      <<"0", "|", "0", "x", "4", "|", "A", "B", "C", "LF">>,
      <<"0", "|", "0", "x", "4", "|", "U263A", "LF">>,
      <<"0", "|", "0", "x", "4", "|", "NUL", "LF">>,
      <<"1", "|", "7", "|", "B", "LF">> }

RebuildTables == ChunkSeqs(RebuildLines, MaxLines)

InitIdle ==
    /\ pos = 0
    /\ replacements = <<>>
    /\ new_code = <<>>
    /\ emitted = <<>>
    /\ written = <<>>
    /\ functions = <<>>
    /\ labels = <<>>
    /\ func_num = 0
    /\ lines = <<>>
    /\ strings_list = <<>>
    /\ string_id = 0
    /\ current_func = -1
    /\ listing = <<>>
    /\ strings_file = <<>>
    /\ text = <<>>
    /\ escaped = <<>>
    /\ unescaped = <<>>
    /\ lookup_opcode = 0
    /\ lookup_name = ""
    /\ info = <<>>
    /\ matches = <<>>
    /\ first_run = <<>>
    /\ iterations = 0
    /\ extracted = <<>>

InitRebuild ==
    /\ data \in RebuildFiles
    /\ table \in RebuildTables
    /\ pc = "rebuild"
    /\ InitIdle

SpecRebuild == InitRebuild /\ [][NextRebuild]_vars

---------------------------------------------------------------------------
(* hcb_decode *)

\* bytes.decode('cp932', errors='replace') on the bytes of the model: the
\* bytes below 128, the pair 0x82 0xA0, and a lead byte 0x82 with no trail
\* byte or with one below 0x40
RECURSIVE DecodeCp932(_)
DecodeCp932(bytes) ==
    IF bytes = <<>> THEN <<>>
    ELSE IF Head(bytes) < 128
         THEN <<Ascii[Head(bytes) + 1]>> \o DecodeCp932(Tail(bytes))
    ELSE IF Head(bytes) = 130 /\ Len(bytes) >= 2 /\ bytes[2] = 160
         THEN <<"HIRA_A">> \o DecodeCp932(SubSeq(bytes, 3, Len(bytes)))
    ELSE IF Head(bytes) = 130 /\ (Len(bytes) = 1 \/ bytes[2] < 64)
         THEN <<"UFFFD">> \o DecodeCp932(Tail(bytes))
    ELSE CHOOSE x \in {} : TRUE     \* a byte sequence outside the model

\* The text of a string operand
DecodeString(bytes) == RStrip(DecodeCp932(bytes), {"NUL"})

\* Escaping of a decoded string for the listing
EscapeForScript(t) ==
    Replace(Replace(Replace(Replace(t, <<BS>>, <<BS, BS>>),
                            <<"\"">>, <<BS, "\"">>),
                    <<"LF">>, <<BS, "n">>),
            <<"CR">>, <<BS, "r">>)

\* f"{n:0{width}d}" and f"{n:0{width}X}"
RECURSIVE FormatNum(_, _, _)
FormatNum(n, base, width) ==
    IF n < base /\ width <= 1 THEN <<Digits[n + 1]>>
    ELSE FormatNum(n \div base, base, width - 1) \o <<Digits[(n % base) + 1]>>

\* A mutant of TableLine: the ids of the strings file start at 1
TableLine_OneBased(sid, addr, t) ==
    FormatNum(sid + 1, 10, 4) \o <<"|", "0", "x">> \o FormatNum(addr, 16, 8)
        \o <<"|">> \o EscapeForTable(t) \o <<"LF">>

\* One line of the strings file: f"{sid:04d}|0x{addr:08X}|{escaped}\n"
TableLine(sid, addr, t) ==
    FormatNum(sid, 10, 4) \o <<"|", "0", "x">> \o FormatNum(addr, 16, 8)
        \o <<"|">> \o EscapeForTable(t) \o <<"LF">>

\* f"label_{target:08x}": the name is the address
LabelName(target) == <<"label_", target>>

MapHas(m, k) == k \in DOMAIN m

\* A mutant of IsJumpTarget: conditional jumps are left out
IsJumpTarget_NoJmpcond(name) == name \in {"jmp", "call"}

\* `name in ("jmp", "jmpcond", "call")`
IsJumpTarget(name) == name \in {"jmp", "jmpcond", "call"}

\* The label map after the X32 instruction `name` whose argument is at `p`
Pass1Labels(name, p) ==
    IF p + 4 <= Len(data) /\ IsJumpTarget(name)
    THEN LET target == UnpackU32(data, p)
         IN  IF target < code_end /\ ~MapHas(labels, target)
                                  /\ ~MapHas(functions', target)
             THEN MapPut(labels, target, LabelName(target))
             ELSE labels
    ELSE labels

\* The cursor after the argument at `p` of an instruction of type arg_type
Pass1Advance(arg_type, p) ==
    IF arg_type = OPARG_STRING
    THEN IF p < Len(data) THEN p + 1 + data[p + 1] ELSE p + 1
    ELSE p + ArgWidth(arg_type)

DecodeStart ==
    /\ pc = "decode"
    /\ IF Len(data) < 4
       THEN /\ pc' = "error"            \* ValueError("File too small ...")
            /\ UNCHANGED <<pos, functions, labels, func_num, iterations>>
       ELSE /\ pc' = "pass1"
            /\ functions' = <<>>
            /\ labels' = <<>>
            /\ pos' = 4
            /\ func_num' = 0
            /\ iterations' = 0
    /\ UNCHANGED <<data, table, rebuildVars, lines, strings_list, string_id,
                   current_func, listing, strings_file, codecVars, lookupVars,
                   first_run, extracted>>

\* A mutant of Pass1Unknown: the unknown byte is not stepped over
Pass1Unknown_NoAdvance ==
    /\ pc = "pass1"
    /\ pos < code_end
    /\ pos < Len(data)
    /\ data[pos + 1] > HCB_LAST_OPCODE
    /\ pos' = pos
    /\ UNCHANGED <<data, table, pc, rebuildVars, decodeVars, codecVars, lookupVars, first_run, extracted>>
    /\ iterations' = iterations + 1

Pass1Unknown ==
    /\ pc = "pass1"
    /\ pos < code_end
    /\ pos < Len(data)
    /\ data[pos + 1] > HCB_LAST_OPCODE
    /\ pos' = pos + 1
    /\ UNCHANGED <<data, table, pc, rebuildVars, decodeVars, codecVars, lookupVars, first_run, extracted>>
    /\ iterations' = iterations + 1

Pass1Inst ==
    /\ pc = "pass1"
    /\ pos < code_end
    /\ pos < Len(data)
    /\ data[pos + 1] <= HCB_LAST_OPCODE
    /\ LET name == get_opcode_info(data[pos + 1])[1]
           arg_type == get_opcode_info(data[pos + 1])[2]
       IN  /\ IF name = "initstack"
              THEN /\ functions' = MapPut(functions, pos, func_num)
                   /\ func_num' = func_num + 1
              ELSE UNCHANGED <<functions, func_num>>
           /\ labels' = IF arg_type = OPARG_X32
                        THEN Pass1Labels(name, pos + 1)
                        ELSE labels
           /\ pos' = Pass1Advance(arg_type, pos + 1)
    /\ UNCHANGED <<data, table, pc, rebuildVars, lines, strings_list, string_id,
                   current_func, listing, strings_file, codecVars, lookupVars, first_run, extracted>>
    /\ iterations' = iterations + 1

\* A mutant of Pass1End: the string id counter is not set back to 0
Pass1End_KeepsStringId ==
    /\ pc = "pass1"
    /\ ~(pos < code_end /\ pos < Len(data))
    /\ pc' = "pass2"
    /\ lines' = <<>>
    /\ strings_list' = <<>>
    /\ pos' = 4
    /\ current_func' = -1
    /\ UNCHANGED <<data, table, rebuildVars, functions, labels, func_num,
                   string_id, listing, strings_file, codecVars, lookupVars,
                   first_run, extracted>>
    /\ iterations' = 0

\* The first loop ends; the locals of the second are set and it starts at 4
Pass1End ==
    /\ pc = "pass1"
    /\ ~(pos < code_end /\ pos < Len(data))
    /\ pc' = "pass2"
    /\ lines' = <<>>
    /\ strings_list' = <<>>
    /\ string_id' = 0
    /\ pos' = 4
    /\ current_func' = -1
    /\ UNCHANGED <<data, table, rebuildVars, functions, labels, func_num,
                   listing, strings_file, codecVars, lookupVars, first_run, extracted>>
    /\ iterations' = 0

\* A mutant of MarkerLines: the marker carries the function counter
MarkerLines_FuncNum ==
    (IF MapHas(functions, pos)
     THEN (IF current_func >= 0 THEN << <<"blank">> >> ELSE <<>>)
             \o << <<"function", func_num>> >>
     ELSE <<>>)
    \o (IF MapHas(labels, pos) THEN << <<"label", labels[pos]>> >> ELSE <<>>)

\* The lines put before the instruction at pos: function header, label
MarkerLines ==
    (IF MapHas(functions, pos)
     THEN (IF current_func >= 0 THEN << <<"blank">> >> ELSE <<>>)
             \o << <<"function", functions[pos]>> >>
     ELSE <<>>)
    \o (IF MapHas(labels, pos) THEN << <<"label", labels[pos]>> >> ELSE <<>>)

MarkerFunc == IF MapHas(functions, pos) THEN functions[pos] ELSE current_func

\* Whether the argument at p of an instruction of type arg_type is cut off
\* by the end of the file
Truncated(arg_type, p) ==
    CASE arg_type = OPARG_NULL -> FALSE
      [] arg_type = OPARG_I8 -> p >= Len(data)
      [] arg_type = OPARG_STRING ->
            p >= Len(data) \/ p + 1 + data[p + 1] > Len(data)
      [] OTHER -> p + ArgWidth(arg_type) > Len(data)

\* The operand of a decoded instruction as the listing shows it
Operand(name, arg_type, p) ==
    CASE arg_type = OPARG_NULL -> <<>>
      [] arg_type = OPARG_X32 ->
            LET val == UnpackU32(data, p)
            IN  IF name \in {"jmp", "jmpcond"}
                THEN IF MapHas(labels, val) THEN labels[val]
                     ELSE IF MapHas(functions, val)
                          THEN <<"FUNCTION_", functions[val]>>
                          ELSE <<"0x", val>>
                ELSE IF name = "call"
                THEN IF MapHas(functions, val)
                     THEN <<"FUNCTION_", functions[val]>>
                     ELSE <<"0x", val>>
                ELSE IF name = "pushfloat" THEN <<"float", val>>
                ELSE <<"0x", val>>
      [] arg_type = OPARG_I32 -> <<"int", ToSigned(UnpackLE(data, p, 4), 4)>>
      [] arg_type = OPARG_I16 -> <<"int", ToSigned(UnpackLE(data, p, 2), 2)>>
      [] arg_type = OPARG_I8 -> <<"int", ToSigned(UnpackLE(data, p, 1), 1)>>
      [] arg_type = OPARG_I8I8 ->
            <<"int", ToSigned(UnpackLE(data, p, 1), 1),
                     ToSigned(UnpackLE(data, p + 1, 1), 1)>>
      [] arg_type = OPARG_STRING ->
            <<"str", EscapeForScript(
                        DecodeString(PySlice(data, p + 1, p + 1 + data[p + 1]))),
              string_id>>

Pass2Unknown ==
    /\ pc = "pass2"
    /\ pos < code_end
    /\ pos < Len(data)
    /\ data[pos + 1] > HCB_LAST_OPCODE
    /\ lines' = lines \o MarkerLines
    /\ current_func' = MarkerFunc
    /\ pos' = pos + 1
    /\ UNCHANGED <<data, table, pc, rebuildVars, functions, labels, func_num,
                   strings_list, string_id, listing, strings_file, codecVars, lookupVars, first_run, extracted>>
    /\ iterations' = iterations + 1

Pass2Inst ==
    /\ pc = "pass2"
    /\ pos < code_end
    /\ pos < Len(data)
    /\ data[pos + 1] <= HCB_LAST_OPCODE
    /\ LET inst_addr == pos
           name == get_opcode_info(data[pos + 1])[1]
           arg_type == get_opcode_info(data[pos + 1])[2]
       IN  /\ ~Truncated(arg_type, pos + 1)
           /\ lines' = lines \o MarkerLines
                 \o << <<"inst", name, Operand(name, arg_type, pos + 1)>> >>
           /\ pos' = Pass1Advance(arg_type, pos + 1)
           /\ IF arg_type = OPARG_STRING
              THEN /\ strings_list' = Append(strings_list,
                         <<string_id, inst_addr,
                           DecodeString(PySlice(data, pos + 2,
                                                pos + 2 + data[pos + 2]))>>)
                   /\ string_id' = string_id + 1
              ELSE UNCHANGED <<strings_list, string_id>>
    /\ current_func' = MarkerFunc
    /\ UNCHANGED <<data, table, pc, rebuildVars, functions, labels, func_num,
                   listing, strings_file, codecVars, lookupVars, first_run, extracted>>
    /\ iterations' = iterations + 1

\* The cursor at a `break`: past the opcode, and past the length byte of a
\* string whose content is cut
BreakCursor(arg_type, p) ==
    IF arg_type = OPARG_STRING /\ p < Len(data) THEN p + 1 ELSE p

\* A mutant of Pass2Truncated: the cut argument raises instead of `break`
Pass2Truncated_Raises ==
    /\ pc = "pass2"
    /\ pos < code_end
    /\ pos < Len(data)
    /\ data[pos + 1] <= HCB_LAST_OPCODE
    /\ Truncated(get_opcode_info(data[pos + 1])[2], pos + 1)
    /\ pc' = "error"
    /\ UNCHANGED <<data, table, pos, rebuildVars, decodeVars, codecVars, lookupVars, first_run, extracted>>
    /\ iterations' = iterations + 1

\* `break` on an argument the file does not hold
Pass2Truncated ==
    /\ pc = "pass2"
    /\ pos < code_end
    /\ pos < Len(data)
    /\ data[pos + 1] <= HCB_LAST_OPCODE
    /\ Truncated(get_opcode_info(data[pos + 1])[2], pos + 1)
    /\ lines' = lines \o MarkerLines
    /\ current_func' = MarkerFunc
    /\ pos' = BreakCursor(get_opcode_info(data[pos + 1])[2], pos + 1)
    /\ pc' = "trailer"
    /\ UNCHANGED <<data, table, rebuildVars, functions, labels, func_num,
                   strings_list, string_id, listing, strings_file, codecVars, lookupVars, first_run, extracted>>
    /\ iterations' = iterations + 1

Pass2End ==
    /\ pc = "pass2"
    /\ ~(pos < code_end /\ pos < Len(data))
    /\ pc' = "trailer"
    /\ UNCHANGED <<data, table, pos, rebuildVars, decodeVars, codecVars, lookupVars, first_run, iterations, extracted>>

\* The trailer, then the listing and the strings file are written
DecodeWrite ==
    /\ pc = "trailer"
    /\ lines' = lines \o << <<"blank">>, <<"entry_point", entry_point>> >>
    /\ listing' = <<lines'>>
    /\ strings_file' =
          <<[i \in 1..Len(strings_list) |->
                TableLine(strings_list[i][1], strings_list[i][2],
                          strings_list[i][3])]>>
    /\ pc' = "decoded"
    /\ UNCHANGED <<data, table, pos, rebuildVars, functions, labels, func_num,
                   strings_list, string_id, current_func, codecVars, lookupVars, first_run, iterations, extracted>>

NextDecode ==
    \/ DecodeStart
    \/ Pass1Unknown
    \/ Pass1Inst
    \/ Pass1End
    \/ Pass2Unknown
    \/ Pass2Inst
    \/ Pass2Truncated
    \/ Pass2End
    \/ DecodeWrite

\* Instructions and stray bytes the code bodies given to hcb_decode are made of
DecodeChunks ==
    { <<4>>,                    \* ret
      <<40>>,                   \* a byte above HCB_LAST_OPCODE
      <<12>>,                   \* pushint (I8) without its argument
      <<12, 5>>,                \* pushint 5 (I8)
      <<1, 2, 3>>,              \* initstack 2, 3
      <<6, 0, 0, 0, 0>>,        \* jmp 0x00000000
      <<6, 4, 0, 0, 0>>,        \* jmp 0x00000004
      <<6, 9, 0, 0, 0>>,        \* jmp 0x00000009
      <<7, 5, 0, 0, 0>>,        \* jmpcond 0x00000005
      <<2, 9, 0, 0, 0>>,        \* call 0x00000009
      <<6, 0, 0, 0, 127>>,      \* jmp 0x7F000000
      <<14, 2, 92, 0>>,         \* pushstring "\" with its terminator
      <<14, 3, 65>>,            \* pushstring of length 3 with one byte
      <<14, 0>> }               \* pushstring of length 0

DecodeFiles == FilesOf(DecodeChunks, MaxDecodeChunks) \cup SmallFiles

InitDecode ==
    /\ data \in DecodeFiles
    /\ table = <<>>
    /\ pc = "decode"
    /\ InitIdle

SpecDecode == InitDecode /\ [][NextDecode]_vars

---------------------------------------------------------------------------
(* Claims about hcb_rebuild *)

\* The bytes of a replacement text with its terminator (appended if absent)
WithTerminator(bytes) == IF EndsWith(bytes, 0) THEN bytes ELSE bytes \o <<0>>

\* The string instructions emitted so far whose address is a key of the map
Replaced == { i \in 1..Len(emitted) : emitted[i].addr \in DOMAIN replacements }

Encoded(i) == EncodeStrict(replacements[emitted[i].addr])

\* The walk has ended on a file whose header is valid (4 <= entryPoint <=
\* file length) and whose instructions end exactly at entryPoint
CleanWalk ==
    /\ pc = "rebuilt"
    /\ Len(data) >= 4
    /\ 4 <= entry_point
    /\ entry_point <= Len(data)
    /\ pos = entry_point

\* C1: the file hcb_rebuild writes is exactly as long as the input file
\* (stated for the inputs of CleanWalk, which the claim's inputs include).
C1_LengthInvariance ==
    CleanWalk => Len(written[1]) = Len(data)

\* Offsets of the content bytes of replaced string operands
ContentOffsets ==
    UNION { (emitted[i].addr + 2)..(emitted[i].addr + 1 + emitted[i].old_len) :
              i \in Replaced }

\* C2: every byte of the written file that is not a content byte of a
\* replaced pushstring operand equals the input byte at the same offset
\* (stated for the inputs of CleanWalk, which the claim's inputs include).
C2_Frame ==
    CleanWalk =>
        \A i \in 0..(Len(data) - 1) :
            i \notin ContentOffsets =>
                /\ i < Len(written[1])
                /\ written[1][i + 1] = data[i + 1]

\* C3: with a replacement map that is empty, the written file equals the
\* input file byte for byte.
C3_IdentityOnEmpty ==
    (pc = "rebuilt" /\ DOMAIN replacements = {}) => written = <<data>>

\* C3 witness: a table with only a comment line, a file with a code segment
C3_Witness ==
    /\ pc = "rebuilt"
    /\ DOMAIN replacements = {}
    /\ table # <<>>
    /\ Len(data) > 4
    /\ written = <<data>>

\* The operand of emitted[i] is not empty and lies wholly in the file
WholeOperand(i) ==
    /\ emitted[i].old_len >= 1
    /\ Len(emitted[i].old_str) = emitted[i].old_len

\* C4: a replacement text cp932 cannot encode leaves the operand (length
\* prefix and content bytes) exactly as in the input, whether or not it
\* ends with NUL, and the other replacements are still applied (stated for
\* operands of at least one byte that the file holds in full).
C4_EncodingFailureFallback ==
    \A i \in Replaced :
        WholeOperand(i) =>
            IF Encoded(i).ok
            THEN emitted[i].new_str
                    = FitString(Encoded(i).bytes, emitted[i].old_len)
            ELSE /\ emitted[i].len_byte = emitted[i].old_len
                 /\ emitted[i].new_str = emitted[i].old_str

\* The replacement at emitted[i] encodes, and with its terminator is shorter
\* (resp. longer) than the original operand
IsShorter(i) ==
    /\ Encoded(i).ok
    /\ Len(WithTerminator(Encoded(i).bytes)) < emitted[i].old_len

IsLonger(i) ==
    /\ Encoded(i).ok
    /\ Len(WithTerminator(Encoded(i).bytes)) > emitted[i].old_len

\* The encoded content of the replacement at emitted[i], without terminator
Content(i) ==
    LET t == WithTerminator(Encoded(i).bytes) IN SubSeq(t, 1, Len(t) - 1)

\* C5: a shorter replacement is emitted as its content, then fill bytes
\* (0x20), then one NUL, L bytes in all, with length prefix L.
C5_Padding ==
    \A i \in Replaced :
        IsShorter(i) =>
            LET L == emitted[i].old_len
                c == Content(i)
            IN  /\ emitted[i].len_byte = L
                /\ Len(emitted[i].new_str) = L
                /\ emitted[i].new_str = c \o [k \in 1..(L - Len(c) - 1) |-> 32] \o <<0>>

\* C5 witness: "A" put into a 3-byte operand, one fill byte before the NUL
C5_Witness ==
    \E i \in Replaced :
        /\ IsShorter(i)
        /\ emitted[i].old_len = 3
        /\ emitted[i].new_str = <<65, 32, 0>>

\* C6: a longer replacement is emitted cut to L bytes, the last one the
\* terminator, with length prefix L, for every L in 0..255.
C6_Truncation ==
    \A i \in Replaced :
        IsLonger(i) =>
            LET L == emitted[i].old_len
                c == Content(i)
            IN  /\ emitted[i].len_byte = L
                /\ Len(emitted[i].new_str) = L
                /\ emitted[i].new_str = SubSeq(c, 1, L - 1) \o <<0>>

---------------------------------------------------------------------------
(* hcb_decode and hcb_rebuild side by side *)

InitHcb == InitDecode \/ InitRebuild

NextHcb == NextDecode \/ NextRebuild

SpecHcb == InitHcb /\ [][NextHcb]_vars

\* The file is smaller than the header, or its code segment is empty or
\* negative
Malformed == Len(data) < 4 \/ entry_point <= 4

\* C7: on a malformed file hcb_decode and hcb_rebuild write no output file.
C7_MalformedAbort ==
    Malformed => (written = <<>> /\ listing = <<>> /\ strings_file = <<>>)

---------------------------------------------------------------------------
(* The table escaping, there and back *)

EscapeChars == {BS, "n", "r", "LF", "CR", "A"}

Texts == UNION { [1..k -> EscapeChars] : k \in 0..MaxTextLen }

\* The strings file writer escapes the decoded string
WriteEscaped ==
    /\ pc = "escape"
    /\ escaped' = EscapeForTable(text)
    /\ pc' = "unescape"
    /\ UNCHANGED <<data, table, pos, rebuildVars, decodeVars, text, unescaped,
                   lookupVars, first_run, iterations, extracted>>

\* The strings file reader unescapes the text field
ReadUnescaped ==
    /\ pc = "unescape"
    /\ unescaped' = UnescapeFromTable(escaped)
    /\ pc' = "read"
    /\ UNCHANGED <<data, table, pos, rebuildVars, decodeVars, text, escaped,
                   lookupVars, first_run, iterations, extracted>>

NextCodec == WriteEscaped \/ ReadUnescaped

InitCodec ==
    /\ data = <<>>
    /\ table = <<>>
    /\ pc = "escape"
    /\ pos = 0
    /\ replacements = <<>>
    /\ new_code = <<>>
    /\ emitted = <<>>
    /\ written = <<>>
    /\ functions = <<>>
    /\ labels = <<>>
    /\ func_num = 0
    /\ lines = <<>>
    /\ strings_list = <<>>
    /\ string_id = 0
    /\ current_func = -1
    /\ listing = <<>>
    /\ strings_file = <<>>
    /\ text \in Texts
    /\ escaped = <<>>
    /\ unescaped = <<>>
    /\ lookup_opcode = 0
    /\ lookup_name = ""
    /\ info = <<>>
    /\ matches = <<>>
    /\ first_run = <<>>
    /\ iterations = 0
    /\ extracted = <<>>

SpecCodec == InitCodec /\ [][NextCodec]_vars

\* C8: unescaping the table-escaped form of a text gives the text back.
C8_EscapeRoundTrip ==
    pc = "read" => unescaped = text

---------------------------------------------------------------------------
(* Claims about hcb_decode *)

\* The second loop stands on a jmp or jmpcond whose argument the file holds
AtJump ==
    /\ pc = "pass2"
    /\ pos < code_end
    /\ pos + 5 <= Len(data)
    /\ data[pos + 1] \in {6, 7}

IsJumpLine(l) == l[1] = "inst" /\ l[2] \in {"jmp", "jmpcond"}

\* C9: a jmp or jmpcond decoded in the second pass whose target is below
\* entryPoint finds the target among the labels or functions of the first
\* pass, and its line shows a label name or FUNCTION_n, never a raw address.
C9_ForwardRefsResolved ==
    /\ AtJump =>
          LET target == UnpackU32(data, pos + 1)
          IN  target < entry_point =>
                 (MapHas(labels, target) \/ MapHas(functions, target))
    /\ \A i \in 1..Len(lines) :
          (IsJumpLine(lines[i]) /\ lines[i][3][1] = "0x") =>
              lines[i][3][2] >= entry_point

\* C9 witness: the jmp at 4 goes forward to 9, where the label is declared
C9_Witness ==
    /\ pc = "decoded"
    /\ lines[1] = <<"inst", "jmp", LabelName(9)>>
    /\ \E j \in 2..Len(lines) :
          lines[j][1] = "label" /\ lines[j][2] = LabelName(9)

\* C10: every label address lies in the code segment, 4 <= a < entryPoint.
C10_LabelsInsideCode ==
    \A a \in DOMAIN labels : 4 <= a /\ a < entry_point

\* The first pass of hcb_decode has ended
AfterPass1 == pc \in {"pass2", "trailer", "decoded"}

\* C11: at the end of Pass 1 no address is both a key of the Label map and
\* a Function start.
C11_LabelsFunctionsDisjoint ==
    AfterPass1 => (DOMAIN labels) \cap (DOMAIN functions) = {}

IsFunctionLine(l) == l[1] = "function"

\* The function-boundary markers of the listing, in the order of the lines
FunctionMarkers == SelectSeq(lines, IsFunctionLine)

\* The indices of the recorded functions are 0..k-1 and grow with the address
FunctionIndicesDense ==
    LET k == Cardinality(DOMAIN functions)
    IN  /\ { functions[a] : a \in DOMAIN functions } = 0..(k - 1)
        /\ \A a, b \in DOMAIN functions : a < b => functions[a] < functions[b]
        /\ pc \in {"pass1", "pass2", "trailer", "decoded"} => func_num = k

\* One step of the first loop records a function at the cursor exactly when
\* the byte it reads as an opcode is initstack (0x01)
Pass1RecordsInitstack ==
    (pc = "pass1" /\ pc' = "pass1") =>
        DOMAIN functions' =
            (DOMAIN functions) \cup (IF data[pos + 1] = 1 THEN {pos} ELSE {})

\* C12: Pass 1 records a function exactly where it reads initstack as an
\* instruction start, the indices are 0..k-1 in address order, and the
\* listing holds one function marker per function, with the same index.
C12_FunctionDiscovery ==
    /\ [](FunctionIndicesDense
          /\ (AfterPass1 => \A a \in DOMAIN functions : data[a + 1] = 1)
          /\ (pc = "decoded" =>
                FunctionMarkers =
                    [i \in 1..Cardinality(DOMAIN functions) |->
                        <<"function", i - 1>>]))
    /\ [][Pass1RecordsInitstack]_vars

\* C12 witness (Scenario A): initstack 2, 3; pushint 5; ret
C12_Witness ==
    /\ pc = "decoded"
    /\ data = <<10, 0, 0, 0, 1, 2, 3, 12, 5, 4>>
    /\ DOMAIN functions = {4}
    /\ functions[4] = 0
    /\ DOMAIN labels = {}
    /\ lines = << <<"function", 0>>,
                  <<"inst", "initstack", <<"int", 2, 3>>>>,
                  <<"inst", "pushint", <<"int", 5>>>>,
                  <<"inst", "ret", <<>>>>,
                  <<"blank">>,
                  <<"entry_point", 10>> >>

IsStringLine(l) == l[1] = "inst" /\ l[2] = "pushstring"

\* The pushstring lines of the listing, in the order of the lines
StringLines == SelectSeq(lines, IsStringLine)

\* C13: the string records have the ids 0..n-1 in order, each at the address
\* of a pushstring opcode, the addresses growing with the id; the id in the
\* comment of a pushstring line is the id of its record, and the strings
\* file shows the same ids and addresses.
C13_MonotonicStringIds ==
    /\ \A i \in 1..Len(strings_list) :
          /\ strings_list[i][1] = i - 1
          /\ strings_list[i][2] >= 4
          /\ strings_list[i][2] < Len(data)
          /\ data[strings_list[i][2] + 1] = 14
          /\ i > 1 => strings_list[i - 1][2] < strings_list[i][2]
    /\ pc \in {"pass2", "trailer", "decoded"} =>
          /\ string_id = Len(strings_list)
          /\ Len(StringLines) = Len(strings_list)
          /\ \A i \in 1..Len(strings_list) :
                StringLines[i][3] =
                    <<"str", EscapeForScript(strings_list[i][3]), i - 1>>
    /\ pc = "decoded" =>
          /\ Len(strings_file[1]) = Len(strings_list)
          /\ \A i \in 1..Len(strings_list) :
                /\ SubSeq(strings_file[1][i], 1, 5)
                      = FormatNum(i - 1, 10, 4) \o <<"|">>
                /\ SubSeq(strings_file[1][i], 6, 16)
                      = <<"0", "x">> \o FormatNum(strings_list[i][2], 16, 8)
                            \o <<"|">>

\* C13 witness: two pushstring instructions, at 4 and at 8
C13_Witness ==
    /\ pc = "decoded"
    /\ data = <<12, 0, 0, 0, 14, 2, 92, 0, 14, 2, 92, 0>>
    /\ Len(strings_list) = 2
    /\ strings_list[1] = <<0, 4, <<BS>>>>
    /\ strings_list[2] = <<1, 8, <<BS>>>>
    /\ StringLines[2][3] = <<"str", <<BS, BS>>, 1>>

---------------------------------------------------------------------------
(* Claims about the three walks *)

\* One of the three loops stands on a byte above HCB_LAST_OPCODE
UnknownAtCursor ==
    /\ pc \in {"pass1", "pass2", "walk"}
    /\ pos < code_end
    /\ pos < Len(data)
    /\ data[pos + 1] > HCB_LAST_OPCODE

\* What a step over an unknown byte does apart from the listing lines
UnknownStepEffect ==
    /\ pos' = pos + 1
    /\ pc' = pc
    /\ functions' = functions
    /\ func_num' = func_num
    /\ labels' = labels
    /\ strings_list' = strings_list
    /\ string_id' = string_id
    /\ emitted' = emitted
    /\ new_code' = IF pc = "walk" THEN Append(new_code, data[pos + 1])
                                  ELSE new_code

\* C14 as stated: a byte above 0x27 at the cursor moves the cursor by one,
\* raises no error, creates no function, label, listing line or string
\* record, and the reassembler copies it.
C14_UnknownOpcodeNoLine ==
    [][UnknownAtCursor => (UnknownStepEffect /\ lines' = lines)]_vars

\* C14 amended: as above, but in Pass 2 the declaration of a label recorded
\* at the address of the byte is emitted; no other line is.
C14_UnknownOpcode ==
    [][UnknownAtCursor =>
          /\ UnknownStepEffect
          /\ lines' = lines \o
                (IF pc = "pass2" /\ MapHas(labels, pos)
                 THEN << <<"label", labels[pos]>> >>
                 ELSE <<>>)]_vars

\* C14 witness: jmp 9; a byte 0x28 at 9; ret at 10
C14_Witness ==
    /\ pc = "decoded"
    /\ data = <<11, 0, 0, 0, 6, 9, 0, 0, 0, 40, 4>>
    /\ lines = << <<"inst", "jmp", LabelName(9)>>,
                  <<"label", LabelName(9)>>,
                  <<"inst", "ret", <<>>>>,
                  <<"blank">>,
                  <<"entry_point", 11>> >>

IsInstLine(l) == l[1] = "inst"

\* The instruction lines of a sequence of listing lines
InstLines(ls) == SelectSeq(ls, IsInstLine)

IsPrefix(s, t) == Len(s) <= Len(t) /\ SubSeq(t, 1, Len(s)) = s

\* A loop of hcb_decode stands on a known opcode whose argument the file
\* does not hold in full
AtTruncated ==
    /\ pc \in {"pass1", "pass2"}
    /\ pos < code_end
    /\ pos < Len(data)
    /\ data[pos + 1] <= HCB_LAST_OPCODE
    /\ Truncated(get_opcode_info(data[pos + 1])[2], pos + 1)

\* A loop of hcb_decode stands on a known opcode with its argument in the file
AtWhole ==
    /\ pc \in {"pass1", "pass2"}
    /\ pos < code_end
    /\ pos < Len(data)
    /\ data[pos + 1] <= HCB_LAST_OPCODE
    /\ ~Truncated(get_opcode_info(data[pos + 1])[2], pos + 1)

\* What the steps of the two loops do on a cut instruction and on a whole one
TruncationSteps ==
    /\ (AtTruncated /\ pc = "pass1") =>
          /\ pc' = "pass1"
          /\ pos' >= Len(data)              \* the loop ends at its next test
          /\ labels' = labels
    /\ (AtTruncated /\ pc = "pass2") =>
          /\ pc' = "trailer"
          /\ InstLines(lines') = InstLines(lines)
    /\ (AtWhole /\ pc = "pass2") =>
          /\ pc' = "pass2"
          /\ Len(InstLines(lines')) = Len(InstLines(lines)) + 1
    /\ pc \in {"pass2", "trailer"} => IsPrefix(lines, lines')

\* C15: on a file of at least 4 bytes hcb_decode raises no error, both loops
\* stop at the first instruction whose argument the file does not hold, the
\* lines decoded before it stay in the listing, and the listing ends with
\* the ENTRY_POINT trailer.
C15_DecodeTruncation ==
    /\ [](/\ pc = "error" => Len(data) < 4
          /\ pc = "decoded" =>
                /\ listing = <<lines>>
                /\ Len(lines) >= 2
                /\ lines[Len(lines)] = <<"entry_point", entry_point>>
                /\ lines[Len(lines) - 1] = <<"blank">>)
    /\ [][TruncationSteps]_vars

\* C15 witness: pushint 5, then a pushint opcode as the last byte of the file
C15_Witness ==
    /\ pc = "decoded"
    /\ data = <<7, 0, 0, 0, 12, 5, 12>>
    /\ listing = << << <<"inst", "pushint", <<"int", 5>>>>,
                       <<"blank">>,
                       <<"entry_point", 7>> >> >>

\* C16: with a replacement map that is not empty, hcb_rebuild on a file of
\* at least 4 bytes whose code segment is cut (entryPoint beyond the file, or
\* the last argument missing) raises no error.
C16_RebuildTruncation ==
    (Len(data) >= 4 /\ DOMAIN replacements # {}) => pc # "error"

\* C17: an instruction the disassembler emits a line for, or the reassembler
\* copies, starts at 4 or above and ends below entryPoint: after the step
\* the cursor is at most entryPoint.
C17_InstructionsInsideCode ==
    [][((pc = "pass2" /\ InstLines(lines') # InstLines(lines))
          \/ (pc = "walk" /\ new_code' # new_code))
        => (4 <= pos /\ pos' <= entry_point)]_vars

---------------------------------------------------------------------------
(* hcb_rebuild: the loop over the lines of the strings file, line by line *)

\* One line of the strings file is read; pos counts the lines read
ReadLine ==
    /\ pc = "strings"
    /\ pos < Len(table)
    /\ LET e == ParseLine(table[pos + 1])
       IN  replacements' = IF e.ok THEN MapPut(replacements, e.addr, e.text)
                                   ELSE replacements
    /\ pos' = pos + 1
    /\ UNCHANGED <<data, table, pc, new_code, emitted, written, decodeVars,
                   codecVars, lookupVars, first_run, iterations, extracted>>

\* The file is exhausted
ReadEnd ==
    /\ pc = "strings"
    /\ pos = Len(table)
    /\ pc' = "strings_read"
    /\ UNCHANGED <<data, table, pos, rebuildVars, decodeVars, codecVars, lookupVars, first_run, iterations, extracted>>

NextTable == ReadLine \/ ReadEnd

\* Lines of a strings file, as the iteration over the file yields them
TableLines ==
    { <<"LF">>,                                          \* blank
      <<"#", "0", "|", "4", "|", "A", "LF">>,            \* comment
      <<"0", "|", "0", "x", "4", "LF">>,                 \* two fields
      <<"x", "|", "0", "x", "4", "|", "A", "LF">>,       \* id not a number
      <<"0", "|", "0", "x", "G", "|", "A", "LF">>,       \* address not hex
      <<"0", "|", "|", "A", "LF">>,                      \* address empty
      <<"0", "|", "0", "x", "4", "|", "A", "LF">>,       \* 0|0x4|A
      <<"1", "|", "0", "x", "4", "|", "B", "|", "C", "LF">>,  \* text B|C
      <<"2", "|", "1", "0", "|", "LF">>,                 \* decimal address
      <<"3", "|", "0", "x", "A", "|", BS, "n", "LF">> }  \* escaped line feed

Tables == ChunkSeqs(TableLines, MaxTableLines)

InitTable ==
    /\ data = <<>>
    /\ table \in Tables
    /\ pc = "strings"
    /\ InitIdle

SpecTable == InitTable /\ [][NextTable]_vars

---------------------------------------------------------------------------
(* Claim about the strings file *)

Pipes(s) == { i \in 1..Len(s) : s[i] = "|" }

FirstPipe(s) == CHOOSE i \in Pipes(s) : \A j \in Pipes(s) : i <= j

SecondPipe(s) ==
    CHOOSE i \in Pipes(s) \ {FirstPipe(s)} :
        \A j \in Pipes(s) \ {FirstPipe(s)} : i <= j

IsDecimal(f) == f # <<>> /\ \A i \in 1..Len(f) : f[i] \in DecDigits

IsHex(f) ==
    /\ Len(f) > 2
    /\ f[1] = "0"
    /\ f[2] = "x"
    /\ \A i \in 3..Len(f) : f[i] \in HexDigits

\* The line without its line end
LineBody(l) == RStrip(l, {"LF", "CR"})

\* The line is a record: not blank, not a comment, three fields or more,
\* a decimal id and a decimal or 0x-hexadecimal address
WellFormedLine(l) ==
    LET s == LineBody(l)
    IN  /\ s # <<>>
        /\ s[1] # "#"
        /\ Cardinality(Pipes(s)) >= 2
        /\ IsDecimal(SubSeq(s, 1, FirstPipe(s) - 1))
        /\ LET f == SubSeq(s, FirstPipe(s) + 1, SecondPipe(s) - 1)
           IN  IsDecimal(f) \/ IsHex(f)

AddrOf(l) ==
    LET s == LineBody(l)
        f == SubSeq(s, FirstPipe(s) + 1, SecondPipe(s) - 1)
    IN  IF IsHex(f) THEN DigitsVal(SubSeq(f, 3, Len(f)), 16, 0)
                    ELSE DigitsVal(f, 10, 0)

\* Everything after the second pipe, unescaped
TextOf(l) ==
    LET s == LineBody(l)
    IN  UnescapeFromTable(SubSeq(s, SecondPipe(s) + 1, Len(s)))

\* The map the records among the lines ls stand for, the later line winning
ExpectedMap(ls) ==
    LET good == { i \in 1..Len(ls) : WellFormedLine(ls[i]) }
        addrs == { AddrOf(ls[i]) : i \in good }
        last(a) == CHOOSE i \in good :
                      /\ AddrOf(ls[i]) = a
                      /\ \A j \in good : AddrOf(ls[j]) = a => j <= i
    IN  [a \in addrs |-> TextOf(ls[last(a)])]

SameMap(m, n) == DOMAIN m = DOMAIN n /\ \A a \in DOMAIN m : m[a] = n[a]

\* C18: after any number of lines the map holds exactly the entries of the
\* well-formed lines read so far, the later line winning; other lines add
\* nothing and do not stop the reading, which goes on to the last line.
C18_TableParsing ==
    /\ pc \in {"strings", "strings_read"} =>
          SameMap(replacements, ExpectedMap(SubSeq(table, 1, pos)))
    /\ pc = "strings_read" =>
          /\ pos = Len(table)
          /\ SameMap(replacements, ParseTable(table, <<>>))

\* C18 witness: a line with two fields, then two records for address 4
C18_Witness ==
    /\ pc = "strings_read"
    /\ Len(table) = 3
    /\ table[1] = <<"0", "|", "0", "x", "4", "LF">>
    /\ table[2] = <<"0", "|", "0", "x", "4", "|", "A", "LF">>
    /\ table[3] = <<"1", "|", "0", "x", "4", "|", "B", "|", "C", "LF">>
    /\ DOMAIN replacements = {4}
    /\ replacements[4] = <<"B", "|", "C">>

---------------------------------------------------------------------------
(* The opcode table: get_opcode_info and get_opcode_by_name *)

\* The values of a byte
Bytes == 0..255

\* The mnemonics of the table and a name that is not in it
OpcodeNames ==
    { HCB_OPCODES[i][2] : i \in 1..Len(HCB_OPCODES) } \cup {"no_such_name"}

GetOpcodeInfo ==
    /\ pc = "lookup_code"
    /\ info' = <<get_opcode_info(lookup_opcode)>>
    /\ pc' = "code_done"
    /\ UNCHANGED <<data, table, pos, rebuildVars, decodeVars, codecVars,
                   lookup_opcode, lookup_name, matches, first_run, iterations, extracted>>

GetOpcodeByName ==
    /\ pc = "lookup_name"
    /\ matches' = <<get_opcode_by_name(lookup_name)>>
    /\ pc' = "name_done"
    /\ UNCHANGED <<data, table, pos, rebuildVars, decodeVars, codecVars,
                   lookup_opcode, lookup_name, info, first_run, iterations, extracted>>

NextOpcodes == GetOpcodeInfo \/ GetOpcodeByName

InitOpcodes ==
    /\ data = <<>>
    /\ table = <<>>
    /\ pos = 0
    /\ replacements = <<>>
    /\ new_code = <<>>
    /\ emitted = <<>>
    /\ written = <<>>
    /\ functions = <<>>
    /\ labels = <<>>
    /\ func_num = 0
    /\ lines = <<>>
    /\ strings_list = <<>>
    /\ string_id = 0
    /\ current_func = -1
    /\ listing = <<>>
    /\ strings_file = <<>>
    /\ text = <<>>
    /\ escaped = <<>>
    /\ unescaped = <<>>
    /\ info = <<>>
    /\ matches = <<>>
    /\ first_run = <<>>
    /\ iterations = 0
    /\ extracted = <<>>
    /\ \/ /\ pc = "lookup_code"
          /\ lookup_opcode \in Bytes
          /\ lookup_name = ""
       \/ /\ pc = "lookup_name"
          /\ lookup_opcode = 0
          /\ lookup_name \in OpcodeNames

SpecOpcodes == InitOpcodes /\ [][NextOpcodes]_vars

\* The table entries whose code field is c
EntriesOfCode(c) ==
    { i \in 1..Len(HCB_OPCODES) : HCB_OPCODES[i][1] = c }

\* The (code, shape) pairs of the table entries named nm
PairsOfName(nm) ==
    { <<HCB_OPCODES[i][1], HCB_OPCODES[i][3]>> :
        i \in { j \in 1..Len(HCB_OPCODES) : HCB_OPCODES[j][2] = nm } }

\* C19: get_opcode_info(c) is the mnemonic and shape of the one entry with
\* code c, which is the entry at position c, for c in 0..0x27 and none
\* above; get_opcode_by_name(m) lists exactly the (code, shape) pairs of m:
\* three, of three shapes, for pushint, one for every other mnemonic, none
\* for a name that is not in the table.
C19_OpcodeTable ==
    /\ pc = "code_done" =>
          IF lookup_opcode <= 39
          THEN /\ EntriesOfCode(lookup_opcode) = {lookup_opcode + 1}
               /\ info[1] = <<HCB_OPCODES[lookup_opcode + 1][2],
                              HCB_OPCODES[lookup_opcode + 1][3]>>
          ELSE info[1] = <<"", -1>>
    /\ pc = "name_done" =>
          LET m == matches[1]
              got == { m[i] : i \in 1..Len(m) }
          IN  /\ got = PairsOfName(lookup_name)
              /\ Cardinality(got) = Len(m)
              /\ \A p \in got :
                    get_opcode_info(p[1]) = <<lookup_name, p[2]>>
              /\ \A c \in Bytes :
                    get_opcode_info(c)[1] = lookup_name =>
                        <<c, get_opcode_info(c)[2]>> \in got
              /\ Len(m) = (IF lookup_name = "pushint" THEN 3
                           ELSE IF lookup_name = "no_such_name" THEN 0
                           ELSE 1)
              /\ Cardinality({ p[2] : p \in got }) = Len(m)

\* C19 witness: the three encodings of pushint
C19_Witness ==
    /\ pc = "name_done"
    /\ lookup_name = "pushint"
    /\ matches = << << <<10, OPARG_I32>>, <<11, OPARG_I16>>,
                       <<12, OPARG_I8>> >> >>

---------------------------------------------------------------------------
(* hcb_decode called twice on the same file *)

\* What a call of hcb_decode leaves behind
DecodeOutputs ==
    [listing |-> listing, strings_file |-> strings_file,
     functions |-> functions, labels |-> labels, strings_list |-> strings_list]

\* hcb_decode is called a second time on the same bytes.  The outputs of the
\* first call are kept aside; every variable keeps the value the first call
\* left, so the second call gets nothing it does not set itself.
DecodeAgain ==
    /\ pc = "decoded"
    /\ first_run = <<>>
    /\ first_run' = <<DecodeOutputs>>
    /\ pc' = "decode"
    /\ UNCHANGED <<data, table, pos, rebuildVars, decodeVars, codecVars,
                   lookupVars, iterations, extracted>>

NextDecodeTwice == NextDecode \/ DecodeAgain

SpecDecodeTwice == InitDecode /\ [][NextDecodeTwice]_vars

\* C20: the second call on the same bytes writes the same listing and the
\* same strings file and ends with the same function map, label map and
\* string records as the first.
C20_DecodeDeterministic ==
    (pc = "decoded" /\ first_run # <<>>) => first_run[1] = DecodeOutputs

\* C20 witness: a second call has ended on a file with a function, a label
\* and a string
C20_Witness ==
    /\ pc = "decoded"
    /\ first_run # <<>>
    /\ DOMAIN functions # {}
    /\ DOMAIN labels # {}
    /\ Len(strings_list) > 0
    /\ first_run[1].listing = listing

---------------------------------------------------------------------------
(* Claims about the loops over the code segment *)

\* The bound of the loops: while pos < code_end, from pos = 4
MaxIterations ==
    IF Len(data) >= 4 /\ entry_point > 4 THEN entry_point - 4 ELSE 0

\* C21: every iteration of the Pass 1 loop, the Pass 2 loop and the
\* reassembler loop moves the cursor forward by at least one byte or ends
\* the loop with an error, so a loop runs at most entryPoint - 4 iterations,
\* and at most as many as the file has bytes in the disassembler.
C21_LoopsTerminate ==
    /\ [][iterations' = iterations + 1 =>
             (pos' >= pos + 1 \/ pc' = "error")]_vars
    /\ [](/\ iterations <= MaxIterations
          /\ pc \in {"pass1", "pass2", "trailer", "decoded"} =>
                iterations <= Len(data))

\* C21 witness: the reassembler has walked an unknown byte and a string of
\* length 0, one iteration per byte of the code segment but one
C21_Witness ==
    /\ pc = "rebuilt"
    /\ data = <<7, 0, 0, 0, 40, 14, 0>>
    /\ iterations = 2
    /\ pos = 7


\* C22: every referenced label is declared: for every jmp or jmpcond line of
\* the listing whose operand is a label name, the listing has the declaration
\* line of that label.
C22_ReferencedLabelsDeclared ==
    pc = "decoded" =>
        \A i \in 1..Len(lines) :
            (/\ lines[i][1] = "inst"
             /\ lines[i][2] \in {"jmp", "jmpcond"}
             /\ lines[i][3][1] = "label_")
            => \E j \in 1..Len(lines) : lines[j] = <<"label", lines[i][3]>>

---------------------------------------------------------------------------
(* hcb_extract_strings, called on a file hcb_decode has written out *)

\* entry_point is unpacked and the locals are set
ExtractStart ==
    /\ pc = "decoded"
    /\ IF Len(data) < 4
       THEN /\ pc' = "error"                    \* struct.error
            /\ UNCHANGED <<pos, strings_list, string_id, iterations>>
       ELSE /\ pc' = "extract"
            /\ strings_list' = <<>>
            /\ string_id' = 0
            /\ pos' = 4
            /\ iterations' = 0
    /\ UNCHANGED <<data, table, rebuildVars, functions, labels, func_num, lines,
                   current_func, listing, strings_file, codecVars, lookupVars,
                   first_run, extracted>>

\* `opcode = data[pos]` or `str_len = data[pos]` past the end of the file
ExtractIndexError ==
    /\ pc = "extract"
    /\ pos < code_end
    /\ IF pos >= Len(data)
       THEN TRUE
       ELSE /\ data[pos + 1] <= HCB_LAST_OPCODE
            /\ get_opcode_info(data[pos + 1])[2] = OPARG_STRING
            /\ pos + 1 >= Len(data)
    /\ pc' = "error"
    /\ UNCHANGED <<data, table, pos, rebuildVars, decodeVars, codecVars,
                   lookupVars, first_run, extracted>>
    /\ iterations' = iterations + 1

ExtractUnknown ==
    /\ pc = "extract"
    /\ pos < code_end
    /\ pos < Len(data)
    /\ data[pos + 1] > HCB_LAST_OPCODE
    /\ pos' = pos + 1
    /\ UNCHANGED <<data, table, pc, rebuildVars, decodeVars, codecVars,
                   lookupVars, first_run, extracted>>
    /\ iterations' = iterations + 1

\* One instruction: the argument is stepped over, a string is recorded.
\* No argument is compared with the length of the file; a slice is clamped.
ExtractInst ==
    /\ pc = "extract"
    /\ pos < code_end
    /\ pos < Len(data)
    /\ data[pos + 1] <= HCB_LAST_OPCODE
    /\ LET inst_addr == pos
           arg_type == get_opcode_info(data[pos + 1])[2]
       IN  IF arg_type = OPARG_STRING
           THEN /\ pos + 1 < Len(data)
                /\ LET str_len == data[pos + 2]
                   IN  /\ strings_list' = Append(strings_list,
                              <<string_id, inst_addr,
                                DecodeString(PySlice(data, pos + 2,
                                                     pos + 2 + str_len))>>)
                       /\ pos' = pos + 2 + str_len
                /\ string_id' = string_id + 1
           ELSE /\ pos' = pos + 1 + ArgWidth(arg_type)
                /\ UNCHANGED <<strings_list, string_id>>
    /\ UNCHANGED <<data, table, pc, rebuildVars, functions, labels, func_num,
                   lines, current_func, listing, strings_file, codecVars,
                   lookupVars, first_run, extracted>>
    /\ iterations' = iterations + 1

\* The strings file is written
ExtractWrite ==
    /\ pc = "extract"
    /\ pos >= code_end
    /\ extracted' =
          <<[i \in 1..Len(strings_list) |->
                TableLine(strings_list[i][1], strings_list[i][2],
                          strings_list[i][3])]>>
    /\ pc' = "extracted"
    /\ UNCHANGED <<data, table, pos, rebuildVars, decodeVars, codecVars,
                   lookupVars, first_run, iterations>>

NextExtract ==
    \/ NextDecode
    \/ ExtractStart
    \/ ExtractIndexError
    \/ ExtractUnknown
    \/ ExtractInst
    \/ ExtractWrite

SpecExtract == InitDecode /\ [][NextExtract]_vars

\* C23: on every file on which hcb_decode and hcb_extract_strings both end
\* without error, the records written by hcb_extract_strings are the strings
\* file written by hcb_decode, also when the last string operand's declared
\* length runs past the end of the file.
C23_ExtractAgreesWithDecode ==
    pc = "extracted" => extracted = strings_file

---------------------------------------------------------------------------
(* hcb_decode, then hcb_rebuild with the strings file hcb_decode wrote *)

\* The strings file of hcb_decode is given to hcb_rebuild unedited
RebuildExported ==
    /\ pc = "decoded"
    /\ table' = strings_file[1]
    /\ pc' = "rebuild"
    /\ UNCHANGED <<data, pos, rebuildVars, decodeVars, codecVars, lookupVars,
                   first_run, iterations, extracted>>

NextRoundTrip == NextDecode \/ RebuildExported \/ NextRebuild

\* Instructions of the files taken through both operations
RoundTripChunks ==
    { <<40>>,                   \* a byte above HCB_LAST_OPCODE
      <<12, 5>>,                \* pushint 5 (I8)
      <<14, 1, 0>>,             \* pushstring "" with its terminator
      <<14, 2, 65, 0>>,         \* pushstring "A" with its terminator
      <<14, 2, 92, 0>>,         \* pushstring of one backslash
      <<14, 3, 92, 110, 0>>,    \* pushstring of a backslash and the letter n
      <<14, 2, 65>> }           \* pushstring of length 2 with one byte

RoundTripFiles == FilesOf(RoundTripChunks, MaxDecodeChunks)

InitRoundTrip ==
    /\ data \in RoundTripFiles
    /\ table = <<>>
    /\ pc = "decode"
    /\ InitIdle

SpecRoundTrip == InitRoundTrip /\ [][NextRoundTrip]_vars

\* The operand is not empty and ends with exactly one NUL byte
OneNul(old_str) ==
    /\ old_str # <<>>
    /\ old_str[Len(old_str)] = 0
    /\ Len(old_str) >= 2 => old_str[Len(old_str) - 1] # 0

\* The operand decodes and encodes again to the same bytes
Lossless(old_str) ==
    LET enc == EncodeStrict(DecodeCp932(old_str))
    IN  enc.ok /\ enc.bytes = old_str

\* A whole operand that decodes and encodes losslessly and ends with one NUL
Faithful(e) ==
    /\ Len(e.old_str) = e.old_len
    /\ Lossless(e.old_str)
    /\ OneNul(e.old_str)

\* The map gives for the operand the text hcb_decode exports for it
Unedited(e) ==
    /\ e.addr \in DOMAIN replacements
    /\ replacements[e.addr] = DecodeString(e.old_str)
    /\ Faithful(e)

\* C24: a string operand whose replacement is the text exported for it, that
\* decodes and encodes losslessly and ends with exactly one NUL byte, is
\* emitted by hcb_rebuild byte for byte as it was; and when that is so for
\* every string operand of the file, rebuilding the file with the strings
\* file hcb_decode wrote for it gives the input file.
C24_RoundTripUnedited ==
    /\ \A i \in 1..Len(emitted) :
          Unedited(emitted[i]) =>
             /\ emitted[i].new_str = emitted[i].old_str
             /\ emitted[i].len_byte = emitted[i].old_len
    /\ (pc = "rebuilt" /\ \A i \in 1..Len(emitted) : Faithful(emitted[i]))
          => written = <<data>>

=============================================================================
